---- MODULE Spec2Model ----
(***************************************************************************)
(* Model of configuration_pop2piano.py: the construction of                *)
(* Pop2PianoConfig and Pop2PianoProcessorConfig objects.                   *)
(*                                                                         *)
(* A Python str is a sequence of one-character strings, so that            *)
(* str.split("-") and prefix tests work on characters.  An object is its   *)
(* __dict__: a function from attribute names to values.  The keyword       *)
(* arguments of a call are a function from the supplied names to values;   *)
(* a name that is not supplied takes the default of the signature          *)
(* (num_decoder_layers not supplied is None).  Floats are kept as opaque   *)
(* literals: the code only copies them.                                    *)
(***************************************************************************)
EXTENDS Integers, Sequences, FiniteSets, TLC

VARIABLES
    COMPOSER_TO_FEATURE_TOKEN,  \* the module-level dict
    kind,       \* class under construction: "none", "model", "processor"
    pc,         \* position inside __init__
    args,       \* keyword arguments of the current call
    self,       \* __dict__ of the object under construction
    ret,        \* what the caller gets: "pending", "object", "ValueError"
    log         \* the statements of __init__ executed so far, in order

vars == <<COMPOSER_TO_FEATURE_TOKEN, kind, pc, args, self, ret, log>>

-----------------------------------------------------------------------------
(* Bounds *)

\* most "-"-separated segments of a generated feed_forward_proj
MaxSegs == 3
\* most keyword arguments supplied in one constructor call
MaxOverrides == 2

-----------------------------------------------------------------------------
(* String literals *)

hyphen == "-"
gated == <<"g", "a", "t", "e", "d">>
gelu == <<"g", "e", "l", "u">>
relu == <<"r", "e", "l", "u">>
gelu_new == <<"g", "e", "l", "u", "_", "n", "e", "w">>
gated_gelu == gated \o <<hyphen>> \o gelu
EmptyStr == << >>
R2 == <<"R", "2">>

EmptyDict == << >>

Range(s) == {s[i] : i \in 1..Len(s)}

Count(s, e) == Cardinality({i \in 1..Len(s) : s[i] = e})

-----------------------------------------------------------------------------
(* str.split("-") *)

RECURSIVE SplitFrom(_, _, _)
SplitFrom(s, i, cur) ==
    IF i > Len(s) THEN <<cur>>
    ELSE IF s[i] = hyphen THEN <<cur>> \o SplitFrom(s, i + 1, EmptyStr)
    ELSE SplitFrom(s, i + 1, Append(cur, s[i]))

Split(s) == SplitFrom(s, 1, EmptyStr)

-----------------------------------------------------------------------------
(* The module-level table *)

ComposerTableShifted ==
    [composer1 |-> 2052, composer2 |-> 2053, composer3 |-> 2054,
     composer4 |-> 2055, composer5 |-> 2056, composer6 |-> 2057,
     composer7 |-> 2058, composer8 |-> 2059, composer9 |-> 2060,
     composer10 |-> 2061, composer11 |-> 2062, composer12 |-> 2063,
     composer13 |-> 2064, composer14 |-> 2065, composer15 |-> 2066,
     composer16 |-> 2067, composer17 |-> 2068, composer18 |-> 2069,
     composer19 |-> 2070, composer20 |-> 2070, composer21 |-> 2072]

ComposerTable ==
    [composer1 |-> 2052, composer2 |-> 2053, composer3 |-> 2054,
     composer4 |-> 2055, composer5 |-> 2056, composer6 |-> 2057,
     composer7 |-> 2058, composer8 |-> 2059, composer9 |-> 2060,
     composer10 |-> 2061, composer11 |-> 2062, composer12 |-> 2063,
     composer13 |-> 2064, composer14 |-> 2065, composer15 |-> 2066,
     composer16 |-> 2067, composer17 |-> 2068, composer18 |-> 2069,
     composer19 |-> 2070, composer20 |-> 2071, composer21 |-> 2072]

-----------------------------------------------------------------------------
(* Pop2PianoConfig.__init__ *)

ModelParams ==
    {"vocab_size", "d_model", "d_kv", "d_ff", "num_layers",
     "num_decoder_layers", "num_heads", "relative_attention_num_buckets",
     "relative_attention_max_distance", "dropout_rate", "layer_norm_epsilon",
     "initializer_factor", "feed_forward_proj", "is_encoder_decoder",
     "use_cache", "pad_token_id", "eos_token_id"}

\* the defaults of the signature; num_decoder_layers=None has no entry
ModelDefaults ==
    [vocab_size |-> 32128, d_model |-> 512, d_kv |-> 64, d_ff |-> 2048,
     num_layers |-> 6, num_heads |-> 8,
     relative_attention_num_buckets |-> 32,
     relative_attention_max_distance |-> 128,
     dropout_rate |-> "0.1", layer_norm_epsilon |-> "1e-6",
     initializer_factor |-> "1.0", feed_forward_proj |-> relu,
     is_encoder_decoder |-> TRUE, use_cache |-> TRUE,
     pad_token_id |-> 0, eos_token_id |-> 1]

ModelArg(a, name) == IF name \in DOMAIN a THEN a[name] ELSE ModelDefaults[name]

\* **kwargs: the supplied names that are not parameters of the signature
ModelKwargs(a) == [k \in DOMAIN a \ ModelParams |-> a[k]]

NumDecoderLayersTruthy(a, num_layers) ==
    IF "num_decoder_layers" \in DOMAIN a /\ a["num_decoder_layers"] # 0
    THEN a["num_decoder_layers"]
    ELSE num_layers

\* num_decoder_layers if num_decoder_layers is not None else self.num_layers
NumDecoderLayers(a, num_layers) ==
    IF "num_decoder_layers" \in DOMAIN a
    THEN a["num_decoder_layers"]
    ELSE num_layers

\* lines 127-142
AssignFields(a) ==
    [vocab_size |-> ModelArg(a, "vocab_size"),
     d_model |-> ModelArg(a, "d_model"),
     d_kv |-> ModelArg(a, "d_kv"),
     d_ff |-> ModelArg(a, "d_ff"),
     num_layers |-> ModelArg(a, "num_layers"),
     num_decoder_layers |-> NumDecoderLayers(a, ModelArg(a, "num_layers")),
     num_heads |-> ModelArg(a, "num_heads"),
     relative_attention_num_buckets |->
         ModelArg(a, "relative_attention_num_buckets"),
     relative_attention_max_distance |->
         ModelArg(a, "relative_attention_max_distance"),
     dropout_rate |-> ModelArg(a, "dropout_rate"),
     layer_norm_epsilon |-> ModelArg(a, "layer_norm_epsilon"),
     initializer_factor |-> ModelArg(a, "initializer_factor"),
     feed_forward_proj |-> ModelArg(a, "feed_forward_proj"),
     use_cache |-> ModelArg(a, "use_cache")]

\* lines 144-146
DeriveActivation(s) ==
    LET act_info == Split(s["feed_forward_proj"])
    IN  ("dense_act_fn" :> act_info[Len(act_info)])
        @@ ("is_gated_act" :> (act_info[1] = gated))
        @@ s

InvalidNoLengthCheck(act_info) ==
    Len(act_info) > 1 /\ act_info[1] # gated

InvalidNoGatedCheck(act_info) ==
    Len(act_info) > 2

\* line 148
Invalid(act_info) ==
    (Len(act_info) > 1 /\ act_info[1] # gated) \/ Len(act_info) > 2

AfterCheckWarnOnly(invalid) == "checked"

\* lines 148-153: a raise leaves __init__, otherwise it goes on
AfterCheck(invalid) == IF invalid THEN "raised" ELSE "checked"

BackCompatOnDense(s, feed_forward_proj) ==
    IF s["dense_act_fn"] = gelu
    THEN [s EXCEPT !["dense_act_fn"] = gelu_new]
    ELSE s

\* lines 155-157
BackCompat(s, feed_forward_proj) ==
    IF feed_forward_proj = gated_gelu
    THEN [s EXCEPT !["dense_act_fn"] = gelu_new]
    ELSE s

\* PretrainedConfig.__init__(pad_token_id, eos_token_id, is_encoder_decoder,
\* **kwargs): keeps the three named values and the remaining keyword fields
\* as attributes
BaseInit(s, named, kwargs) ==
    [k \in DOMAIN s \cup DOMAIN named \cup DOMAIN kwargs |->
        IF k \in DOMAIN kwargs THEN kwargs[k]
        ELSE IF k \in DOMAIN named THEN named[k]
        ELSE s[k]]

\* the keyword arguments of the super().__init__ call, lines 159-164
BaseNamed(a) ==
    [pad_token_id |-> ModelArg(a, "pad_token_id"),
     eos_token_id |-> ModelArg(a, "eos_token_id"),
     is_encoder_decoder |-> ModelArg(a, "is_encoder_decoder")]

\* the whole constructor as a function of its arguments
Pop2PianoConfig(a) ==
    LET s == DeriveActivation(AssignFields(a))
    IN  IF AfterCheck(Invalid(Split(s["feed_forward_proj"]))) = "raised"
        THEN [raised |-> TRUE, obj |-> EmptyDict]
        ELSE [raised |-> FALSE,
              obj |-> BaseInit(BackCompat(s, ModelArg(a, "feed_forward_proj")),
                               BaseNamed(a), ModelKwargs(a))]

-----------------------------------------------------------------------------
(* Pop2PianoProcessorConfig.__init__ *)

ProcessorParams ==
    {"vocab_size_special", "vocab_size_note", "vocab_size_velocity",
     "vocab_size_time", "dataset_target_length", "dataset_input_length",
     "dataset_n_bars", "dataset_sample_rate", "dataset_use_mel",
     "dataset_mel_is_conditioned"}

ProcessorDefaults ==
    [vocab_size_special |-> 4, vocab_size_note |-> 128,
     vocab_size_velocity |-> 2, vocab_size_time |-> 100,
     dataset_target_length |-> 256, dataset_input_length |-> 1024,
     dataset_n_bars |-> 2, dataset_sample_rate |-> 22050,
     dataset_use_mel |-> TRUE, dataset_mel_is_conditioned |-> TRUE]

ProcessorArg(a, name) ==
    IF name \in DOMAIN a THEN a[name] ELSE ProcessorDefaults[name]

ProcessorKwargs(a) == [k \in DOMAIN a \ ProcessorParams |-> a[k]]

DatasetSwapped(a) ==
    [target_length |-> ProcessorArg(a, "dataset_input_length"),
     input_length |-> ProcessorArg(a, "dataset_target_length"),
     n_bars |-> ProcessorArg(a, "dataset_n_bars"),
     sample_rate |-> ProcessorArg(a, "dataset_sample_rate"),
     use_mel |-> ProcessorArg(a, "dataset_use_mel"),
     mel_is_conditioned |-> ProcessorArg(a, "dataset_mel_is_conditioned")]

\* lines 183-189
Dataset(a) ==
    [target_length |-> ProcessorArg(a, "dataset_target_length"),
     input_length |-> ProcessorArg(a, "dataset_input_length"),
     n_bars |-> ProcessorArg(a, "dataset_n_bars"),
     sample_rate |-> ProcessorArg(a, "dataset_sample_rate"),
     use_mel |-> ProcessorArg(a, "dataset_use_mel"),
     mel_is_conditioned |-> ProcessorArg(a, "dataset_mel_is_conditioned")]

\* lines 190-196
Tokenizer(a) ==
    [vocab_size |->
        [special |-> ProcessorArg(a, "vocab_size_special"),
         note |-> ProcessorArg(a, "vocab_size_note"),
         velocity |-> ProcessorArg(a, "vocab_size_velocity"),
         time |-> ProcessorArg(a, "vocab_size_time")]]

Pop2PianoProcessorConfigKeepsKwargs(a, table) ==
    LET o == [composer_to_feature_token |-> table,
              dataset |-> Dataset(a),
              tokenizer |-> Tokenizer(a)]
        kw == ProcessorKwargs(a)
    IN  [k \in DOMAIN o \cup DOMAIN kw |->
            IF k \in DOMAIN kw THEN kw[k] ELSE o[k]]

\* lines 170-196; **kwargs is accepted and not used, and the base class
\* initialiser is not called
Pop2PianoProcessorConfig(a, table) ==
    [composer_to_feature_token |-> table,
     dataset |-> Dataset(a),
     tokenizer |-> Tokenizer(a)]

-----------------------------------------------------------------------------
(* Serialisation, as the persistence layer does it *)

\* the attribute-name -> value document of an object
ToDict(obj) == [k \in DOMAIN obj |-> obj[k]]

\* cls(**config_dict)
FromDict(cls, doc, table) ==
    IF cls = "model" THEN Pop2PianoConfig(doc)
    ELSE [raised |-> FALSE, obj |-> Pop2PianoProcessorConfig(doc, table)]

-----------------------------------------------------------------------------
(* The calls the environment makes *)

SegPool == {EmptyStr, gated, gelu, relu, gelu_new, R2}

RECURSIVE Join(_)
Join(segs) ==
    IF Len(segs) = 1 THEN segs[1]
    ELSE segs[1] \o <<hyphen>> \o Join(Tail(segs))

FfpInputs ==
    {Join(segs) : segs \in UNION {[1..n -> SegPool] : n \in 1..MaxSegs}}

ModelArgNames == ModelParams \cup {"foo"}

ModelArgValues(name) ==
    CASE name = "feed_forward_proj" -> FfpInputs
      [] name = "num_layers" -> {0, 3}
      [] name = "num_decoder_layers" -> {0, 4}
      [] name \in {"dropout_rate", "layer_norm_epsilon",
                   "initializer_factor"} -> {"0.5"}
      [] name \in {"is_encoder_decoder", "use_cache"} -> {FALSE}
      [] OTHER -> {7}

ProcessorArgNames ==
    ProcessorParams \cup {"foo", "composer_to_feature_token", "dataset"}

ProcessorArgValues(name) ==
    CASE name \in {"dataset_use_mel", "dataset_mel_is_conditioned"} -> {FALSE}
      [] name = "composer_to_feature_token" -> {[composer1 |-> 0]}
      [] name = "dataset" -> {[target_length |-> 1]}
      [] name = "foo" -> {7}
      [] OTHER -> {0, -1}

RECURSIVE ModelCalls(_)
ModelCalls(S) ==
    IF S = {} THEN {EmptyDict}
    ELSE LET k == CHOOSE n \in S : TRUE
         IN  {(k :> v) @@ f : v \in ModelArgValues(k), f \in ModelCalls(S \ {k})}

RECURSIVE ProcessorCalls(_)
ProcessorCalls(S) ==
    IF S = {} THEN {EmptyDict}
    ELSE LET k == CHOOSE n \in S : TRUE
         IN  {(k :> v) @@ f : v \in ProcessorArgValues(k),
                              f \in ProcessorCalls(S \ {k})}

Supplied(names) == {S \in SUBSET names : Cardinality(S) <= MaxOverrides}

-----------------------------------------------------------------------------
(* The state machine *)

Init ==
    /\ COMPOSER_TO_FEATURE_TOKEN = ComposerTable
    /\ kind = "none"
    /\ pc = "idle"
    /\ args = EmptyDict
    /\ self = EmptyDict
    /\ ret = "pending"
    /\ log = << >>

\* Pop2PianoConfig(**a) is called; lines 127-142
ModelAssign ==
    /\ pc = "idle"
    /\ \E S \in Supplied(ModelArgNames) : \E a \in ModelCalls(S) :
        /\ args' = a
        /\ self' = AssignFields(a)
    /\ kind' = "model"
    /\ pc' = "assigned"
    /\ ret' = "pending"
    /\ log' = <<"assign">>
    /\ UNCHANGED COMPOSER_TO_FEATURE_TOKEN

\* lines 144-146
ModelDerive ==
    /\ pc = "assigned"
    /\ self' = DeriveActivation(self)
    /\ pc' = "derived"
    /\ log' = Append(log, "derive")
    /\ UNCHANGED <<COMPOSER_TO_FEATURE_TOKEN, kind, args, ret>>

\* lines 148-153
ModelCheck ==
    /\ pc = "derived"
    /\ LET next == AfterCheck(Invalid(Split(self["feed_forward_proj"])))
       IN  /\ pc' = next
           /\ IF next = "raised"
              THEN /\ ret' = "ValueError"
                   /\ self' = EmptyDict
                   /\ log' = Append(log, "raise")
              ELSE /\ UNCHANGED <<ret, self>>
                   /\ log' = Append(log, "check")
    /\ UNCHANGED <<COMPOSER_TO_FEATURE_TOKEN, kind, args>>

\* lines 155-157
ModelBackCompat ==
    /\ pc = "checked"
    /\ self' = BackCompat(self, ModelArg(args, "feed_forward_proj"))
    /\ pc' = "compat"
    /\ log' = Append(log, "compat")
    /\ UNCHANGED <<COMPOSER_TO_FEATURE_TOKEN, kind, args, ret>>

\* lines 159-164, and the return to the caller
ModelBaseInit ==
    /\ pc = "compat"
    /\ self' = BaseInit(self, BaseNamed(args), ModelKwargs(args))
    /\ pc' = "done"
    /\ ret' = "object"
    /\ log' = Append(log, "base_init")
    /\ UNCHANGED <<COMPOSER_TO_FEATURE_TOKEN, kind, args>>

\* Pop2PianoProcessorConfig(**a) is called; lines 182-196
ProcessorConstruct ==
    /\ pc = "idle"
    /\ \E S \in Supplied(ProcessorArgNames) : \E a \in ProcessorCalls(S) :
        /\ args' = a
        /\ self' = Pop2PianoProcessorConfig(a, COMPOSER_TO_FEATURE_TOKEN)
    /\ kind' = "processor"
    /\ pc' = "done"
    /\ ret' = "object"
    /\ log' = <<"assign">>
    /\ UNCHANGED COMPOSER_TO_FEATURE_TOKEN

\* the caller is done with the result and may construct again
NextCall ==
    /\ pc \in {"done", "raised"}
    /\ kind' = "none"
    /\ pc' = "idle"
    /\ args' = EmptyDict
    /\ self' = EmptyDict
    /\ ret' = "pending"
    /\ log' = << >>
    /\ UNCHANGED COMPOSER_TO_FEATURE_TOKEN

Next ==
    \/ ModelAssign
    \/ ModelDerive
    \/ ModelCheck
    \/ ModelBackCompat
    \/ ModelBaseInit
    \/ ProcessorConstruct
    \/ NextCall

Spec == Init /\ [][Next]_vars

ModelDone == kind = "model" /\ pc = "done"
ModelRaised == kind = "model" /\ pc = "raised"
ProcessorDone == kind = "processor" /\ pc = "done"
feed_forward_proj == ModelArg(args, "feed_forward_proj")

TypeOK ==
    /\ kind \in {"none", "model", "processor"}
    /\ pc \in {"idle", "assigned", "derived", "checked", "compat", "done",
               "raised"}
    /\ ret \in {"pending", "object", "ValueError"}

-----------------------------------------------------------------------------
(* Helpers of the properties *)

gated_hyphen == gated \o <<hyphen>>

HasPrefix(s, p) == Len(s) >= Len(p) /\ SubSeq(s, 1, Len(p)) = p

StripPrefix(s, p) == SubSeq(s, Len(p) + 1, Len(s))

LowercaseOrUnderscore ==
    {"a", "b", "c", "d", "e", "f", "g", "h", "i", "j", "k", "l", "m", "n",
     "o", "p", "q", "r", "s", "t", "u", "v", "w", "x", "y", "z", "_"}

\* s matches ^[a-z_]+$
IsLowerName(s) == Len(s) > 0 /\ Range(s) \subseteq LowercaseOrUnderscore

\* s matches ^(gated-)?[a-z_]+$
MatchesLowerPattern(s) ==
    \/ IsLowerName(s)
    \/ HasPrefix(s, gated_hyphen) /\ IsLowerName(StripPrefix(s, gated_hyphen))

\* s matches ^(gated-)?[^-]*$
MatchesHyphenFreePattern(s) ==
    \/ hyphen \notin Range(s)
    \/ /\ HasPrefix(s, gated_hyphen)
       /\ hyphen \notin Range(StripPrefix(s, gated_hyphen))

\* one segment, or two segments whose first is "gated"
ShapeOK(s) ==
    LET segs == Split(s)
    IN  Len(segs) = 1 \/ (Len(segs) = 2 /\ segs[1] = gated)

\* position of the first occurrence of e in s, 0 if there is none
IndexOf(s, e) ==
    IF e \in Range(s) THEN CHOOSE i \in 1..Len(s) :
                               s[i] = e /\ \A j \in 1..(i - 1) : s[j] # e
    ELSE 0

ComposerKey(i) == "composer" \o ToString(i)

-----------------------------------------------------------------------------
(* Properties *)

\* C1: construction of Pop2PianoConfig raises the validation error if and
\* only if feed_forward_proj, split on "-", is neither one segment nor two
\* segments whose first is "gated"; every other value constructs.
C1_RaisesIffBadShape ==
    (kind = "model" /\ pc \in {"checked", "compat", "done", "raised"}) =>
        /\ (pc = "raised") <=> ~ShapeOK(feed_forward_proj)
        /\ (pc = "raised") <=> (ret = "ValueError")
        /\ (pc = "done") => (ret = "object")

C1_Witness ==
    /\ ModelRaised
    /\ ret = "ValueError"
    /\ feed_forward_proj = Join(<<gated, relu, R2>>)

\* C2 (as stated): for every accepted feed_forward_proj X without a hyphen,
\* is_gated_act is false and dense_act_fn is X, and is_gated_act is true only
\* when feed_forward_proj begins with "gated-".
C2_PlainIsNotGated ==
    ModelDone =>
        /\ (hyphen \notin Range(feed_forward_proj)) =>
              /\ self["is_gated_act"] = FALSE
              /\ self["dense_act_fn"] = feed_forward_proj
        /\ self["is_gated_act"] => HasPrefix(feed_forward_proj, gated_hyphen)

\* C3: for every accepted "gated-X", is_gated_act is true and dense_act_fn
\* is X, except that "gated-gelu" gives "gelu_new"; no other value is
\* rewritten: dense_act_fn is then the text after the optional "gated-".
C3_GatedActivation ==
    ModelDone =>
        /\ HasPrefix(feed_forward_proj, gated_hyphen) =>
              /\ self["is_gated_act"] = TRUE
              /\ self["dense_act_fn"] =
                    IF feed_forward_proj = gated_gelu THEN gelu_new
                    ELSE StripPrefix(feed_forward_proj, gated_hyphen)
        /\ (feed_forward_proj # gated_gelu) =>
              self["dense_act_fn"] =
                    IF HasPrefix(feed_forward_proj, gated_hyphen)
                    THEN StripPrefix(feed_forward_proj, gated_hyphen)
                    ELSE feed_forward_proj

C3_Witness ==
    /\ ModelDone
    /\ feed_forward_proj = gated_gelu
    /\ self["dense_act_fn"] = gelu_new
    /\ self["is_gated_act"]

\* C4 (as stated): every feed_forward_proj for which construction succeeds
\* matches ^(gated-)?[a-z_]+$.
C4_AcceptedMatchesLowerPattern ==
    ModelDone => MatchesLowerPattern(feed_forward_proj)

\* C4 (amended): every feed_forward_proj for which construction succeeds
\* matches ^(gated-)?[^-]*$: a hyphen-free activation name, possibly empty
\* and of any other characters, optionally preceded by one "gated-".
C4_AcceptedMatchesHyphenFreePattern ==
    (kind = "model" /\ pc \in {"checked", "compat", "done"}) =>
        MatchesHyphenFreePattern(feed_forward_proj)

C4_Witness ==
    /\ ModelDone
    /\ feed_forward_proj = R2
    /\ ~MatchesLowerPattern(feed_forward_proj)

\* C5: without a num_decoder_layers argument the object has
\* num_decoder_layers = num_layers; any supplied value, 0 included, is
\* stored as it is, and num_layers is its own argument.
C5_DecoderLayers ==
    ModelDone =>
        /\ self["num_layers"] = ModelArg(args, "num_layers")
        /\ self["num_decoder_layers"] =
              IF "num_decoder_layers" \in DOMAIN args
              THEN args["num_decoder_layers"]
              ELSE ModelArg(args, "num_layers")

C5_Witness ==
    /\ ModelDone
    /\ DOMAIN args = {"num_layers", "num_decoder_layers"}
    /\ args["num_decoder_layers"] = 0
    /\ self["num_decoder_layers"] = 0
    /\ self["num_layers"] = 3

\* C6: the table has exactly 21 entries, keys "composer1".."composer21",
\* injective, and "composer<i>" maps to 2051 + i.
C6_ComposerTable ==
    /\ DOMAIN COMPOSER_TO_FEATURE_TOKEN = {ComposerKey(i) : i \in 1..21}
    /\ Cardinality(DOMAIN COMPOSER_TO_FEATURE_TOKEN) = 21
    /\ \A i \in 1..21 : COMPOSER_TO_FEATURE_TOKEN[ComposerKey(i)] = 2051 + i
    /\ \A k1, k2 \in DOMAIN COMPOSER_TO_FEATURE_TOKEN :
          COMPOSER_TO_FEATURE_TOKEN[k1] = COMPOSER_TO_FEATURE_TOKEN[k2]
              => k1 = k2
    /\ {COMPOSER_TO_FEATURE_TOKEN[k] : k \in DOMAIN COMPOSER_TO_FEATURE_TOKEN}
          = 2052..2072

C6_Witness ==
    /\ ProcessorDone
    /\ self["composer_to_feature_token"]["composer21"] = 2072

\* the nested field of a processor object that a constructor argument fills
NestedField(obj, name) ==
    CASE name = "vocab_size_special" -> obj["tokenizer"]["vocab_size"]["special"]
      [] name = "vocab_size_note" -> obj["tokenizer"]["vocab_size"]["note"]
      [] name = "vocab_size_velocity" ->
             obj["tokenizer"]["vocab_size"]["velocity"]
      [] name = "vocab_size_time" -> obj["tokenizer"]["vocab_size"]["time"]
      [] name = "dataset_target_length" -> obj["dataset"]["target_length"]
      [] name = "dataset_input_length" -> obj["dataset"]["input_length"]
      [] name = "dataset_n_bars" -> obj["dataset"]["n_bars"]
      [] name = "dataset_sample_rate" -> obj["dataset"]["sample_rate"]
      [] name = "dataset_use_mel" -> obj["dataset"]["use_mel"]
      [] name = "dataset_mel_is_conditioned" ->
             obj["dataset"]["mel_is_conditioned"]

\* the defaults as the specification lists them
StatedDataset ==
    [target_length |-> 256, input_length |-> 1024, n_bars |-> 2,
     sample_rate |-> 22050, use_mel |-> TRUE, mel_is_conditioned |-> TRUE]

StatedVocabSize == [special |-> 4, note |-> 128, velocity |-> 2, time |-> 100]

\* C7: with all defaults dataset and tokenizer.vocab_size are the stated
\* records; each supplied argument lands unchecked in its own nested field
\* and the other fields keep their defaults.
C7_ProcessorFields ==
    ProcessorDone =>
        /\ DOMAIN self["dataset"] = DOMAIN StatedDataset
        /\ DOMAIN self["tokenizer"] = {"vocab_size"}
        /\ DOMAIN self["tokenizer"]["vocab_size"] = DOMAIN StatedVocabSize
        /\ (DOMAIN args \cap ProcessorParams = {}) =>
              /\ self["dataset"] = StatedDataset
              /\ self["tokenizer"]["vocab_size"] = StatedVocabSize
        /\ \A name \in ProcessorParams :
              NestedField(self, name) =
                  IF name \in DOMAIN args THEN args[name]
                  ELSE NestedField([dataset |-> StatedDataset,
                                    tokenizer |-> [vocab_size |->
                                                      StatedVocabSize]], name)

C7_Witness ==
    /\ ProcessorDone
    /\ DOMAIN args = {"vocab_size_note"}
    /\ args["vocab_size_note"] = -1
    /\ self["tokenizer"]["vocab_size"]["note"] = -1
    /\ self["dataset"] = StatedDataset

\* C8 (as stated): serialising a constructed config of either class and
\* constructing the class again from the entries of the document gives an
\* object equal field for field to the original.
C8_RoundTrip ==
    (pc = "done") =>
        LET r == FromDict(kind, ToDict(self), COMPOSER_TO_FEATURE_TOKEN)
        IN  ~r.raised /\ r.obj = self

\* the Pop2PianoConfig half of the round trip
ModelRoundTrip ==
    ModelDone =>
        LET r == FromDict(kind, ToDict(self), COMPOSER_TO_FEATURE_TOKEN)
        IN  ~r.raised /\ r.obj = self

\* C9: a feed_forward_proj that fails the shape check raises exactly once,
\* the caller gets the error and no object, and the base initialiser is
\* never reached; on success it is reached exactly once, after the derived
\* fields are set.
C9_RaiseBeforeBaseInit ==
    (kind = "model") =>
        /\ ~ShapeOK(feed_forward_proj) => Count(log, "base_init") = 0
        /\ Count(log, "raise") <= 1
        /\ (Count(log, "raise") = 1) <=> (pc = "raised")
        /\ (pc = "raised") =>
              /\ ~ShapeOK(feed_forward_proj)
              /\ ret = "ValueError"
              /\ self = EmptyDict
        /\ (~ShapeOK(feed_forward_proj) /\ ret # "pending") =>
              ret = "ValueError"
        /\ (pc = "done") =>
              /\ Count(log, "base_init") = 1
              /\ 0 < IndexOf(log, "derive")
              /\ IndexOf(log, "derive") < IndexOf(log, "compat")
              /\ IndexOf(log, "compat") < IndexOf(log, "base_init")
              /\ {"dense_act_fn", "is_gated_act", "pad_token_id",
                  "eos_token_id", "is_encoder_decoder"} \subseteq DOMAIN self
              /\ DOMAIN ModelKwargs(args) \subseteq DOMAIN self
        /\ (Count(log, "base_init") > 0) => (pc = "done")

C9_Witness ==
    /\ ModelRaised
    /\ log = <<"assign", "derive", "raise">>
    /\ "foo" \in DOMAIN args

\* C10: every constructed Pop2PianoProcessorConfig holds the module-level
\* table, whatever the arguments, and the table is never written.
C10_ComposerTableFixed ==
    /\ COMPOSER_TO_FEATURE_TOKEN = ComposerTable
    /\ ProcessorDone =>
          /\ self["composer_to_feature_token"] = COMPOSER_TO_FEATURE_TOKEN
          /\ DOMAIN self = {"composer_to_feature_token", "dataset",
                            "tokenizer"}

C10_Witness ==
    /\ ProcessorDone
    /\ "composer_to_feature_token" \in DOMAIN args
    /\ self["composer_to_feature_token"] = ComposerTable
====
